---- MODULE Spec2Model ----
(***************************************************************************)
(* Model of the supervisor's protocol adapter (app/agent_caller.py,        *)
(* call_agent) and of the combiner's fallback (app/combine.py,             *)
(* combine_tool_outputs).                                                  *)
(*                                                                         *)
(* call_agent is one coroutine: it runs from its entry to the awaited POST *)
(* without yielding, and from the arrival of the transport outcome to its  *)
(* return.  The model has one action per branch of each of the two halves. *)
(***************************************************************************)
EXTENDS Integers, Sequences, FiniteSets, TLC

(***************************************************************************)
(* JSON values as the body of an HTTP reply carries them.  A value is a    *)
(* record with one field that names its JSON type; an object's members     *)
(* are a function from keys to values.  [raw |-> s] is a body whose text   *)
(* is not JSON at all.                                                     *)
(***************************************************************************)
Str(s) == [str |-> s]
Num(n) == [num |-> n]
Bool(b) == [bool |-> b]
Null == [null |-> TRUE]
Arr(a) == [arr |-> a]
Obj(o) == [obj |-> o]
Raw(s) == [raw |-> s]

IsStr(v) == DOMAIN v = {"str"}
IsNum(v) == DOMAIN v = {"num"}
IsBool(v) == DOMAIN v = {"bool"}
IsNull(v) == DOMAIN v = {"null"}
IsArr(v) == DOMAIN v = {"arr"}
IsObj(v) == DOMAIN v = {"obj"}

\* resp.json() succeeds
JsonParses(body) == DOMAIN body # {"raw"}

\* Python's None, for the optional fields of the envelopes
None == [none |-> TRUE]

\* an empty dict
EmptyDict == <<>>

\* k in d
Has(d, k) == k \in DOMAIN d.obj

\* d.get(k, default)
Get(d, k, default) == IF k \in DOMAIN d.obj THEN d.obj[k] ELSE default

\* bool(v), as `if v:` and `not v` evaluate it
Truthy(v) ==
    CASE IsStr(v) -> v.str # ""
      [] IsNum(v) -> v.num # 0
      [] IsBool(v) -> v.bool
      [] IsNull(v) -> FALSE
      [] IsArr(v) -> Len(v.arr) > 0
      [] IsObj(v) -> DOMAIN v.obj # {}
      [] OTHER -> FALSE

\* str(v), and an f-string's {v}
PyStr(v) ==
    CASE IsStr(v) -> v.str
      [] IsNum(v) -> ToString(v.num)
      [] IsBool(v) -> IF v.bool THEN "True" ELSE "False"
      [] IsNull(v) -> "None"
      [] OTHER -> ToString(v)

\* json.dumps(v, indent=2): the serialised text of v
JsonDumps(v) == "json:" \o ToString(v)

\* sep.join(parts) for a list of strings
RECURSIVE Join(_, _)
Join(parts, sep) ==
    IF Len(parts) = 0 THEN ""
    ELSE IF Len(parts) = 1 THEN parts[1]
    ELSE parts[1] \o sep \o Join(Tail(parts), sep)

(***************************************************************************)
(* Program constants                                                       *)
(***************************************************************************)
PROGRESS_AGENT_INTENT_MAP ==
    [k \in {"progress.track", "progress.accountability", "goal.create",
            "goal.update", "reflection.add", "reflection.analyze",
            "productivity.report", "productivity.insights",
            "productivity.freeform"} |->
        CASE k = "progress.track" -> "accountability"
          [] k = "progress.accountability" -> "accountability"
          [] k = "goal.create" -> "freeform_message"
          [] k = "goal.update" -> "goal"
          [] k = "reflection.add" -> "freeform_message"
          [] k = "reflection.analyze" -> "analyze_reflections"
          [] k = "productivity.report" -> "generate_report"
          [] k = "productivity.insights" -> "get_insights"
          [] k = "productivity.freeform" -> "freeform_message"]

HTTP_OK == 200

BUDGET_AGENT == "budget_tracker_agent"
PROGRESS_AGENT == "progress_accountability_agent"

(***************************************************************************)
(* The inputs of a call                                                    *)
(***************************************************************************)
MaxUploads == 2

AgentNames == {BUDGET_AGENT, PROGRESS_AGENT, "document_summarizer_agent"}
AgentTypes == {"http", "cli", "grpc"}
Endpoints == {"", "http://agent.local/run"}
Intents == DOMAIN PROGRESS_AGENT_INTENT_MAP \cup {"document.summarize"}
Texts == {"update my goal"}
RequestIds == {"req-1", "req-2"}

AgentMetas ==
    [name : AgentNames, type : AgentTypes, endpoint : Endpoints,
     timeout_ms : {30000}]

\* entries of context["file_uploads"]
FirstUploads ==
    { [base64_data |-> "QUJD", mime_type |-> "application/pdf",
       filename |-> "plan.pdf"],
      [base64_data |-> "REVG"],
      [base64_data |-> "", mime_type |-> "text/plain",
       filename |-> "empty.txt"] }
LaterUpload ==
    [base64_data |-> "R0hJ", mime_type |-> "image/png", filename |-> "second.png"]
\* context is Dict[str, Any]: an entry need not be a mapping
PathUpload == Str("uploads/plan.pdf")
UploadLists ==
    {<<>>} \cup
    { <<f>> \o [i \in 1..n |-> LaterUpload] :
        f \in FirstUploads \cup {PathUpload}, n \in 0..(MaxUploads - 1) }

\* the shared context dict: every key is optional
Contexts ==
    { EmptyDict,
      "user_id" :> "u-17",
      ("user_id" :> "u-17") @@ ("goal_id" :> "g-42"),
      ("user_id" :> "u-17") @@ ("goal_id" :> "g-42") @@ ("progress" :> 60),
      ("goal_id" :> "g-42") @@ ("progress" :> 60) }
    \cup { ("user_id" :> "u-17") @@ ("file_uploads" :> u) : u \in UploadLists }

(***************************************************************************)
(* State of one call of call_agent                                         *)
(***************************************************************************)
VARIABLES
    pc,          \* "start": entered; "awaiting": the POST is in flight; "done"
    httpx,       \* whether `import httpx` succeeded (module level)
    agent_meta,  \* the AgentMetadata argument
    intent,      \* the intent argument
    text,        \* the text argument
    context,     \* the context argument
    request_id,  \* the uuid4 drawn for this call ("" before it is drawn)
    handshake,   \* the AgentRequest built for this call
    payload,     \* the JSON body of the POST (None when nothing was posted)
    posts,       \* the number of POSTs issued to the endpoint
    resp,        \* the transport's outcome: an exception or a status and a body
    returned     \* what the call handed to its caller

callVars ==
    <<pc, httpx, agent_meta, intent, text, context, request_id, handshake,
      payload, posts, resp, returned>>

(***************************************************************************)
(* Request construction                                                    *)
(***************************************************************************)
\* context.get(k, default) on the context dict
CtxGet(ctx, k, default) == IF k \in DOMAIN ctx THEN ctx[k] ELSE default

\* first_file.get(k, default)
UploadGet(f, k, default) == IF k \in DOMAIN f THEN f[k] ELSE default

\* first_file.get raises AttributeError: the first upload is not a mapping
MetadataRaises(ctx) ==
    LET file_uploads == CtxGet(ctx, "file_uploads", <<>>)
    IN  Len(file_uploads) > 0 /\ IsStr(file_uploads[1])

\* faulty variant: the last upload is attached, not the first
BuildMetadata_LastUpload(ctx) ==
    LET base == [language |-> "en", extra |-> EmptyDict]
        file_uploads == CtxGet(ctx, "file_uploads", <<>>)
    IN  IF Len(file_uploads) > 0
        THEN LET last_file == file_uploads[Len(file_uploads)]
                 base64_data == UploadGet(last_file, "base64_data", "")
             IN  IF base64_data # ""
                 THEN base @@
                      [file_base64 |-> base64_data,
                       mime_type |->
                           UploadGet(last_file, "mime_type",
                                     "application/octet-stream"),
                       filename |->
                           UploadGet(last_file, "filename", "uploaded_file")]
                 ELSE base
        ELSE base

\* the metadata sub-map of the request's input
BuildMetadata(ctx) ==
    LET base == [language |-> "en", extra |-> EmptyDict]
        file_uploads == CtxGet(ctx, "file_uploads", <<>>)
    IN  IF Len(file_uploads) > 0
        THEN LET first_file == file_uploads[1]
                 base64_data == UploadGet(first_file, "base64_data", "")
             IN  IF base64_data # ""
                 THEN base @@
                      [file_base64 |-> base64_data,
                       mime_type |->
                           UploadGet(first_file, "mime_type",
                                     "application/octet-stream"),
                       filename |->
                           UploadGet(first_file, "filename", "uploaded_file")]
                 ELSE base
        ELSE base

\* the canonical AgentRequest
BuildHandshake(rid, meta, int, txt, ctx) ==
    [request_id |-> rid,
     agent_name |-> meta.name,
     intent |-> int,
     input |-> [text |-> txt, metadata |-> BuildMetadata(ctx)],
     context |-> ctx]

\* PROGRESS_AGENT_INTENT_MAP.get(intent, "accountability")
MappedTask(int) ==
    IF int \in DOMAIN PROGRESS_AGENT_INTENT_MAP
    THEN PROGRESS_AGENT_INTENT_MAP[int]
    ELSE "accountability"

\* context.get(k) is truthy
CtxTruthy(ctx, k) ==
    /\ k \in DOMAIN ctx
    /\ IF k = "progress" THEN ctx[k] # 0 ELSE ctx[k] # ""

\* the {user_id, task, params} payload of the progress/accountability agent
ProgressPayload(int, txt, ctx) ==
    LET mapped == MappedTask(int)
        params ==
            IF mapped = "freeform_message" THEN [message |-> txt]
            ELSE IF mapped = "goal" THEN [message |-> txt]
            ELSE IF /\ int = "goal.update"
                    /\ CtxTruthy(ctx, "goal_id")
                    /\ CtxTruthy(ctx, "progress")
                 THEN [goal_id |-> ctx["goal_id"], progress |-> ctx["progress"]]
            ELSE EmptyDict
        task == IF mapped = "goal" THEN "freeform_message" ELSE mapped
    IN  [user_id |-> CtxGet(ctx, "user_id", "anonymous"),
         task |-> task,
         params |-> params]

\* the body POSTed, by agent name
BuildPayload(rid, meta, int, txt, ctx) ==
    IF meta.name = BUDGET_AGENT THEN [query |-> txt]
    ELSE IF meta.name = PROGRESS_AGENT THEN ProgressPayload(int, txt, ctx)
    ELSE BuildHandshake(rid, meta, int, txt, ctx)

(***************************************************************************)
(* The response envelope                                                   *)
(***************************************************************************)
ErrorResponse(rid, name, type, message) ==
    [request_id |-> rid, agent_name |-> name, status |-> "error",
     output |-> None, error |-> [type |-> type, message |-> message]]

SuccessResponse(rid, name, result, details) ==
    [request_id |-> rid, agent_name |-> name, status |-> "success",
     output |-> [result |-> result, details |-> details], error |-> None]

\* transport selection: the live HTTP branch
HttpReady(meta, lib) == meta.type = "http" /\ meta.endpoint # "" /\ lib

(***************************************************************************)
(* Text helpers of the formatters                                          *)
(***************************************************************************)
\* "-" * n
RECURSIVE Dashes(_)
Dashes(n) == IF n = 0 THEN "" ELSE "-" \o Dashes(n - 1)

\* s[:n]
Prefix(s, n) == IF Len(s) <= n THEN s ELSE SubSeq(s, 1, n)

\* s.upper(), for the risk levels an agent reports
Upper(s) ==
    CASE s = "low" -> "LOW"
      [] s = "medium" -> "MEDIUM"
      [] s = "high" -> "HIGH"
      [] s = "unknown" -> "UNKNOWN"
      [] OTHER -> "upper(" \o s \o ")"

\* f"{x:.1%}" of a whole number x
Percent1(n) == ToString(n * 100) \o ".0%"

\* f"{x:.2f}" of a whole number x
Fixed2(n) == ToString(n) \o ".00"

\* the keys of a dict as a list (iteration order of the dict)
RECURSIVE KeyList(_)
KeyList(keys) ==
    IF keys = {} THEN <<>>
    ELSE LET k == CHOOSE x \in keys : TRUE
         IN  <<k>> \o KeyList(keys \ {k})

\* the characters of a string
Chars(s) == [i \in 1..Len(s) |-> SubSeq(s, i, i)]

\* sep.join(v) raises: v is not iterable, or an item is not a string
JoinRaises(v) ==
    CASE IsArr(v) -> \E i \in 1..Len(v.arr) : ~IsStr(v.arr[i])
      [] IsStr(v) -> FALSE
      [] IsObj(v) -> FALSE
      [] OTHER -> TRUE

\* sep.join(v) for a value it accepts
JoinValue(v, sep) ==
    CASE IsArr(v) -> Join([i \in 1..Len(v.arr) |-> v.arr[i].str], sep)
      [] IsStr(v) -> Join(Chars(v.str), sep)
      [] IsObj(v) -> Join(KeyList(DOMAIN v.obj), sep)
      [] OTHER -> ""

(***************************************************************************)
(* format_accountability_response                                          *)
(***************************************************************************)
\* the formatter raises on this dict
AccountabilityRaises(data) ==
    LET metrics == Get(data, "performance_metrics", Obj(EmptyDict))
        goal_risks == Get(data, "goal_risks", Obj(EmptyDict))
    IN  \/ /\ IsObj(metrics)
           /\ ~Truthy(Get(metrics, "message", Null))
           /\ ~IsNum(Get(metrics, "completion_rate", Num(0)))
        \/ /\ Truthy(goal_risks)
           /\ \/ ~IsObj(goal_risks)
              \/ \E g \in DOMAIN goal_risks.obj :
                    \/ ~IsObj(goal_risks.obj[g])
                    \/ ~IsStr(Get(goal_risks.obj[g], "risk", Str("unknown")))

RiskLine(goal_id, risk_info) ==
    "  - Goal " \o Prefix(goal_id, 8) \o "...: "
        \o Upper(Get(risk_info, "risk", Str("unknown")).str) \o " risk ("
        \o PyStr(Get(risk_info, "days_to_deadline", Str("?")))
        \o " days to deadline, ETA: "
        \o PyStr(Get(risk_info, "eta", Str("N/A"))) \o ")"

format_accountability_response(data) ==
    LET generated_at == Get(data, "generated_at", Str(""))
        header ==
            IF Truthy(generated_at)
            THEN << "Accountability Report (Generated: "
                        \o PyStr(generated_at) \o ")",
                    Dashes(50) >>
            ELSE <<>>
        user ==
            << "User: " \o PyStr(Get(data, "user_id", Str("anonymous"))), "" >>
        metrics == Get(data, "performance_metrics", Obj(EmptyDict))
        performance ==
            IF ~IsObj(metrics) THEN <<>>
            ELSE IF Truthy(Get(metrics, "message", Null))
            THEN << "Performance: " \o PyStr(metrics.obj["message"]) >>
            ELSE << "Performance Metrics:",
                    "  - Total Goals: "
                        \o PyStr(Get(metrics, "total_goals", Num(0))),
                    "  - Completed: "
                        \o PyStr(Get(metrics, "completed_goals", Num(0))),
                    "  - In Progress: "
                        \o PyStr(Get(metrics, "in_progress_goals", Num(0))),
                    "  - Missed: "
                        \o PyStr(Get(metrics, "missed_goals", Num(0))),
                    "  - Completion Rate: "
                        \o Percent1(Get(metrics, "completion_rate", Num(0)).num),
                    "  - Productivity Trend: "
                        \o PyStr(Get(metrics, "productivity_trend", Str("N/A"))) >>
        goal_risks == Get(data, "goal_risks", Obj(EmptyDict))
        risks ==
            IF Truthy(goal_risks)
            THEN LET ids == KeyList(DOMAIN goal_risks.obj)
                 IN  <<"Goal Risks:">> \o
                     [i \in 1..Len(ids) |->
                         RiskLine(ids[i], goal_risks.obj[ids[i]])]
            ELSE <<"Goal Risks: None">>
        reflection == Get(data, "reflection_summary", Obj(EmptyDict))
        reflections ==
            IF ~IsObj(reflection) THEN <<>>
            ELSE IF Truthy(Get(reflection, "message", Null))
            THEN << "Reflections: " \o PyStr(reflection.obj["message"]) >>
            ELSE << "Reflection Summary: Available" >>
    IN  Join(header \o user \o performance \o <<"">> \o risks \o <<"">>
                 \o reflections, "\n")

(***************************************************************************)
(* format_goal_created_response, format_reflection_saved_response          *)
(***************************************************************************)
GoalCreatedRaises(data) ==
    LET used_data == Get(data, "used_data", Obj(EmptyDict))
    IN  Truthy(used_data) /\ ~IsObj(used_data)

format_goal_created_response(data) ==
    LET used_data == Get(data, "used_data", Obj(EmptyDict))
        head == << "Goal Created Successfully!", Dashes(30),
                   "Goal ID: " \o PyStr(Get(data, "goal_id", Str("unknown"))) >>
        used ==
            IF Truthy(used_data)
            THEN << "Title: " \o PyStr(Get(used_data, "title", Str("N/A"))),
                    "Category: " \o PyStr(Get(used_data, "category", Str("N/A"))),
                    "Type: " \o PyStr(Get(used_data, "goal_type", Str("N/A"))),
                    "Deadline: " \o PyStr(Get(used_data, "deadline", Str("N/A"))),
                    "Priority: " \o PyStr(Get(used_data, "priority", Str("N/A"))) >>
            ELSE <<>>
    IN  Join(head \o used, "\n")

format_reflection_saved_response(data) ==
    LET reflection_id == Get(data, "reflection_id", Str(""))
        head == << "Reflection Saved Successfully!", Dashes(30) >>
        ident ==
            IF Truthy(reflection_id)
            THEN << "Reflection ID: " \o PyStr(reflection_id) >>
            ELSE <<>>
    IN  Join(head \o ident, "\n")

(***************************************************************************)
(* Normalisation of an HTTP 200 reply of the progress/accountability agent *)
(***************************************************************************)
\* resp_data.get("payload", .get("analysis", .get("report", .get("insights", {}))))
ProgressPayloadData(data) ==
    Get(data, "payload",
        Get(data, "analysis",
            Get(data, "report", Get(data, "insights", Obj(EmptyDict)))))

\* resp_data.get("missing_fields", resp_data.get("missing_parts", []))
MissingFields(data) ==
    Get(data, "missing_fields", Get(data, "missing_parts", Arr(<<>>)))

\* the body looks like an accountability payload
LooksLikeAccountability(data) ==
    \/ Has(data, "generated_at")
    \/ Has(data, "goal_risks")
    \/ Has(data, "performance_metrics")

\* the try block of the progress branch raises
ProgressParseRaises(body) ==
    IF ~JsonParses(body) \/ ~IsObj(body) THEN TRUE
    ELSE LET status == Get(body, "status", Str(""))
             payload_data == ProgressPayloadData(body)
             missing == MissingFields(body)
         IN  CASE status = Str("ok") ->
                    /\ IsObj(payload_data)
                    /\ Has(payload_data, "generated_at")
                    /\ AccountabilityRaises(payload_data)
               [] status = Str("created") -> GoalCreatedRaises(body)
               [] status = Str("saved") -> FALSE
               [] status = Str("incomplete") ->
                    Truthy(missing) /\ JoinRaises(missing)
               [] status = Str("error") -> FALSE
               [] OTHER ->
                    LooksLikeAccountability(body) /\ AccountabilityRaises(body)

\* str(parse_exc)
ParseExcText(body) ==
    IF ~JsonParses(body) THEN "Expecting value: line 1 column 1 (char 0)"
    ELSE IF ~IsObj(body) THEN "object has no attribute 'get'"
    ELSE "unsupported value in agent response"

ParseErrorResponse(rid, name, body) ==
    ErrorResponse(rid, name, "parse_error",
                  "Failed to parse agent response: " \o ParseExcText(body))

\* the result text of the branch the body's status selects
ProgressResultText(data) ==
    LET status == Get(data, "status", Str(""))
        payload_data == ProgressPayloadData(data)
        missing == MissingFields(data)
    IN  CASE status = Str("ok") ->
               IF IsObj(payload_data) /\ Has(payload_data, "generated_at")
               THEN Str(format_accountability_response(payload_data))
               ELSE IF IsObj(payload_data) THEN Str(JsonDumps(payload_data))
               ELSE Str(PyStr(payload_data))
          [] status = Str("created") -> Str(format_goal_created_response(data))
          [] status = Str("saved") -> Str(format_reflection_saved_response(data))
          [] status = Str("incomplete") ->
               Str(PyStr(Get(data, "message", Str("Some information is missing.")))
                   \o "\nMissing: "
                   \o (IF Truthy(missing) THEN JoinValue(missing, ", ")
                       ELSE "unknown"))
          [] OTHER ->
               IF LooksLikeAccountability(data)
               THEN Str(format_accountability_response(data))
               ELSE IF Has(data, "reply") THEN Get(data, "reply", Str(""))
               ELSE IF Has(data, "message") THEN Get(data, "message", Str(""))
               ELSE Str(JsonDumps(data))

\* faulty variant: "incomplete" is reported as a failure of the agent
ProgressResponse_IncompleteIsError(rid, name, body) ==
    IF ProgressParseRaises(body) THEN ParseErrorResponse(rid, name, body)
    ELSE IF Get(body, "status", Str("")) \in {Str("error"), Str("incomplete")}
    THEN ErrorResponse(rid, name, "agent_error",
             PyStr(Get(body, "message",
                       Str("Unknown error from progress_accountability_agent"))))
    ELSE SuccessResponse(rid, name, ProgressResultText(body),
                         Str(JsonDumps(body)))

ProgressResponse(rid, name, body) ==
    IF ProgressParseRaises(body) THEN ParseErrorResponse(rid, name, body)
    ELSE IF Get(body, "status", Str("")) = Str("error")
    THEN ErrorResponse(rid, name, "agent_error",
             PyStr(Get(body, "message",
                       Str("Unknown error from progress_accountability_agent"))))
    ELSE SuccessResponse(rid, name, ProgressResultText(body),
                         Str(JsonDumps(body)))

(***************************************************************************)
(* Normalisation of an HTTP 200 reply of the budget tracker agent          *)
(***************************************************************************)
\* the text is synthesised: success is truthy and "response" is missing or falsy
BudgetSynthesises(data) ==
    /\ Truthy(Get(data, "success", Bool(FALSE)))
    /\ ~Truthy(Get(data, "response", Null))

\* the try block of the budget branch raises
BudgetParseRaises(body) ==
    IF ~JsonParses(body) \/ ~IsObj(body) THEN TRUE
    ELSE /\ BudgetSynthesises(body)
         /\ \/ Has(body, "remaining") /\ ~IsNum(body.obj["remaining"])
            \/ /\ Has(body, "recommendations")
               /\ Truthy(body.obj["recommendations"])
               /\ JoinRaises(body.obj["recommendations"])

\* faulty variant: the project name is left out of the parts
BudgetParts_NoProject(data) ==
    (IF Has(data, "remaining")
     THEN << "Remaining: $" \o Fixed2(data.obj["remaining"].num) >> ELSE <<>>)
    \o (IF Has(data, "overshoot_risk")
        THEN << "Overshoot Risk: " \o PyStr(data.obj["overshoot_risk"]) >>
        ELSE <<>>)
    \o (IF Has(data, "recommendations") /\ Truthy(data.obj["recommendations"])
        THEN << "Recommendations: "
                    \o JoinValue(data.obj["recommendations"], ", ") >>
        ELSE <<>>)

\* the parts list of the synthesised text
BudgetParts(data) ==
    (IF Has(data, "remaining")
     THEN << "Remaining: $" \o Fixed2(data.obj["remaining"].num) >> ELSE <<>>)
    \o (IF Has(data, "project_name")
        THEN << "Project: " \o PyStr(data.obj["project_name"]) >> ELSE <<>>)
    \o (IF Has(data, "overshoot_risk")
        THEN << "Overshoot Risk: " \o PyStr(data.obj["overshoot_risk"]) >>
        ELSE <<>>)
    \o (IF Has(data, "recommendations") /\ Truthy(data.obj["recommendations"])
        THEN << "Recommendations: "
                    \o JoinValue(data.obj["recommendations"], ", ") >>
        ELSE <<>>)

BudgetResultText(data) ==
    IF ~BudgetSynthesises(data) THEN Get(data, "response", Null)
    ELSE IF Len(BudgetParts(data)) > 0 THEN Str(Join(BudgetParts(data), ". "))
    ELSE Str(PyStr(data))

BudgetResponse(rid, name, body) ==
    IF BudgetParseRaises(body) THEN ParseErrorResponse(rid, name, body)
    ELSE IF Truthy(Get(body, "success", Bool(FALSE)))
    THEN SuccessResponse(rid, name, BudgetResultText(body),
                         IF Truthy(body) THEN Str(JsonDumps(body)) ELSE None)
    ELSE ErrorResponse(rid, name, "agent_error",
             PyStr(Get(body, "error",
                       Get(body, "message",
                           Str("Unknown error from budget tracker agent")))))

(***************************************************************************)
(* Every other agent: the body is decoded directly as an AgentResponse     *)
(***************************************************************************)
\* the closed taxonomy of ErrorModel.type
ErrorTypes ==
    {"http_error", "network_error", "config_error", "not_implemented",
     "parse_error", "agent_error"}

\* the fields of the body fit the fields of AgentResponse
ValidAgentResponse(data) ==
    /\ Has(data, "request_id") /\ IsStr(data.obj["request_id"])
    /\ Has(data, "agent_name") /\ IsStr(data.obj["agent_name"])
    /\ Has(data, "status") /\ data.obj["status"] \in {Str("success"), Str("error")}
    /\ LET output == Get(data, "output", Null)
       IN  \/ IsNull(output)
           \/ /\ IsObj(output)
              /\ Has(output, "result")
              /\ \/ IsNull(Get(output, "details", Null))
                 \/ IsStr(Get(output, "details", Null))
    /\ LET error == Get(data, "error", Null)
       IN  \/ IsNull(error)
           \/ /\ IsObj(error)
              /\ Has(error, "type") /\ IsStr(error.obj["type"])
              /\ error.obj["type"].str \in ErrorTypes
              /\ Has(error, "message") /\ IsStr(error.obj["message"])

\* AgentResponse(**data), for a body the constructor accepts
DecodeAgentResponse(data) ==
    LET output == Get(data, "output", Null)
        error == Get(data, "error", Null)
    IN  [request_id |-> data.obj["request_id"].str,
         agent_name |-> data.obj["agent_name"].str,
         status |-> data.obj["status"].str,
         output |->
             IF IsNull(output) THEN None
             ELSE [result |-> output.obj["result"],
                   details |->
                       IF IsStr(Get(output, "details", Null))
                       THEN output.obj["details"] ELSE None],
         error |->
             IF IsNull(error) THEN None
             ELSE [type |-> error.obj["type"].str,
                   message |-> error.obj["message"].str]]

\* `return AgentResponse(**resp.json())` raises
GenericDecodeRaises(body) ==
    ~JsonParses(body) \/ ~IsObj(body) \/ ~ValidAgentResponse(body)

\* str(exc) of that exception
DecodeExcText(body) ==
    IF ~JsonParses(body) THEN "Expecting value: line 1 column 1 (char 0)"
    ELSE IF ~IsObj(body) THEN "argument after ** must be a mapping"
    ELSE "validation error for AgentResponse"

\* faulty variant of the outer handler: the failure is reported as a success
NetworkErrorResponse_AsSuccess(rid, name, exc) ==
    SuccessResponse(rid, name, Str(exc), None)

\* the outer handler: except Exception as exc
NetworkErrorResponse(rid, name, exc) ==
    ErrorResponse(rid, name, "network_error", exc)

GenericResponse(rid, name, body) ==
    IF GenericDecodeRaises(body)
    THEN NetworkErrorResponse(rid, name, DecodeExcText(body))
    ELSE DecodeAgentResponse(body)

\* a status other than 200
HttpErrorResponse(rid, meta, code) ==
    ErrorResponse(rid, meta.name, "http_error",
                  "HTTP " \o ToString(code) \o " calling " \o meta.endpoint)

(***************************************************************************)
(* What the transport can hand back                                        *)
(***************************************************************************)
\* exceptions of `await client.post(...)`: no connection, DNS, the deadline
TransportErrors ==
    {"All connection attempts failed", "Name or service not known",
     "ReadTimeout"}

\* bodies that are not a JSON object
NonObjectBodies == {Raw("<html>502 Bad Gateway</html>"), Arr(<<Str("ok")>>)}

\* bodies in the vocabulary of the progress/accountability agent
ProgressBodies ==
    { Obj([status |-> Str("ok"),
           payload |-> Obj([generated_at |-> Str("2025-01-06"),
                            user_id |-> Str("u-17"),
                            performance_metrics |->
                                Obj([total_goals |-> Num(3),
                                     completed_goals |-> Num(1),
                                     completion_rate |-> Num(1)]),
                            goal_risks |->
                                Obj("goal-0123456789" :>
                                        Obj([risk |-> Str("high"),
                                             days_to_deadline |-> Num(3)]))])]),
      Obj([status |-> Str("ok"),
           payload |-> Obj([generated_at |-> Str("2025-01-06"),
                            performance_metrics |->
                                Obj([completion_rate |-> Str("n/a")])])]),
      Obj([status |-> Str("ok"), analysis |-> Obj([mood |-> Str("steady")])]),
      Obj([status |-> Str("ok"), payload |-> Str("all goals on track")]),
      Obj([status |-> Str("ok")]),
      Obj([status |-> Str("created"), goal_id |-> Str("g-9"),
           used_data |-> Obj([title |-> Str("Run 5k"),
                              deadline |-> Str("2025-03-01")])]),
      Obj([status |-> Str("created")]),
      Obj([status |-> Str("created"), used_data |-> Str("Run 5k")]),
      Obj([status |-> Str("saved"), reflection_id |-> Str("rf-1")]),
      Obj([status |-> Str("incomplete"), message |-> Str("Need more details."),
           missing_fields |-> Arr(<<Str("title"), Str("deadline")>>)]),
      Obj([status |-> Str("incomplete"),
           missing_parts |-> Arr(<<Str("deadline")>>)]),
      Obj([status |-> Str("incomplete"), missing_fields |-> Arr(<<>>),
           missing_parts |-> Arr(<<Str("deadline")>>)]),
      Obj([status |-> Str("incomplete")]),
      Obj([status |-> Str("incomplete"), missing_fields |-> Arr(<<Num(2)>>)]),
      Obj([status |-> Str("error"), message |-> Str("goal not found")]),
      Obj([status |-> Str("error")]),
      Obj([status |-> Str("queued"), reply |-> Str("Working on it.")]),
      Obj([status |-> Str("queued"), message |-> Str("Queued.")]),
      Obj([status |-> Str("queued")]),
      Obj([status |-> Num(1)]),
      Obj([generated_at |-> Str("2025-01-06"),
           reflection_summary |-> Obj([message |-> Str("2 reflections")])]),
      Obj([goal_risks |-> Arr(<<Str("g-1")>>)]),
      Obj(EmptyDict) }

\* a member of a JSON object that may be missing
OptionalMember(k, values) == {EmptyDict} \cup {k :> v : v \in values}

\* bodies in the vocabulary of the budget tracker agent

BudgetBodies ==
    { Obj(("success" :> Bool(TRUE)) @@ rem @@ prj @@ risk @@ rec) :
        rem \in OptionalMember("remaining", {Num(1200), Null}),
        prj \in OptionalMember("project_name", {Str("Apollo")}),
        risk \in OptionalMember("overshoot_risk", {Str("low")}),
        rec \in OptionalMember("recommendations",
                   {Arr(<<>>), Arr(<<Str("cut travel"), Str("defer hiring")>>)}) }
    \cup
    { Obj(("success" :> Bool(TRUE)) @@ ("response" :> r) @@ rem) :
        r \in {Str("Budget is on track."), Str("")},
        rem \in OptionalMember("remaining", {Num(1200)}) }
    \cup
    { Obj(suc @@ err @@ msg) :
        suc \in OptionalMember("success", {Bool(FALSE)}),
        err \in OptionalMember("error", {Str("no budget configured")}),
        msg \in OptionalMember("message", {Str("try again later")}) }

\* bodies shaped as the canonical envelope, well formed or not
EnvelopeBodies ==
    { Obj(("request_id" :> Str(r)) @@ ("agent_name" :> Str(n))
              @@ ("status" :> Str(st)) @@ out @@ err) :
        r \in RequestIds,
        n \in {"document_summarizer_agent", "deadline_guardian_agent"},
        st \in {"success", "error"},
        out \in OptionalMember("output",
                   {Obj([result |-> Str("Summary: three action items."),
                         details |-> Null])}),
        err \in OptionalMember("error",
                   {Obj([type |-> Str("agent_error"),
                         message |-> Str("could not read the file")])}) }
    \cup
    { Obj([request_id |-> Str("req-1"),
           agent_name |-> Str("document_summarizer_agent")]),
      Obj([agent_name |-> Str("document_summarizer_agent"),
           status |-> Str("success"),
           output |-> Obj([result |-> Str("Summary: three action items.")])]),
      Obj([request_id |-> Str("req-1"),
           agent_name |-> Str("document_summarizer_agent"),
           status |-> Str("ok")]),
      Obj([request_id |-> Str("req-1"),
           agent_name |-> Str("document_summarizer_agent"),
           status |-> Str("error"),
           error |-> Obj([type |-> Str("timeout"),
                          message |-> Str("took too long")])]) }

Bodies == NonObjectBodies \cup ProgressBodies \cup BudgetBodies \cup EnvelopeBodies

\* statuses other than 200, and bodies sent with them
ErrorCodes == {201, 404, 500}
ErrorBodies ==
    { Raw("<html>502 Bad Gateway</html>"),
      Obj([success |-> Bool(TRUE), response |-> Str("Budget is on track.")]),
      Obj([status |-> Str("ok")]),
      Obj([request_id |-> Str("req-1"),
           agent_name |-> Str("document_summarizer_agent"),
           status |-> Str("success"),
           output |-> Obj([result |-> Str("Summary: three action items.")])]) }

(***************************************************************************)
(* State of one call of combine_tool_outputs                               *)
(***************************************************************************)
VARIABLES
    c_pc,          \* "start"; "calling": the completion request is out; "done"
    OpenAI,        \* whether `from openai import OpenAI` succeeded
    api_key,       \* os.getenv("OPENROUTER_API_KEY"): "" when unset
    tool_outputs,  \* req.tool_outputs
    llm_reply,     \* the outcome of client.chat.completions.create
    combined       \* the CombinedAnswerResponse returned

combineVars == <<c_pc, OpenAI, api_key, tool_outputs, llm_reply, combined>>

(***************************************************************************)
(* State of one call of summarize_history                                  *)
(***************************************************************************)
VARIABLES
    h_pc,       \* "idle", "start", "calling", "done"
    h_OpenAI,   \* whether `from openai import OpenAI` succeeded in history.py
    h_api_key,  \* os.getenv("OPENROUTER_API_KEY"): "" when unset
    history,    \* the history argument: a list of {role, content} dicts
    h_reply,    \* the outcome of client.chat.completions.create
    summary     \* the string returned

historyVars == <<h_pc, h_OpenAI, h_api_key, history, h_reply, summary>>

vars == <<callVars, combineVars, historyVars>>

\* no call of call_agent is in progress
CallIdle ==
    /\ pc = "idle"
    /\ httpx = FALSE
    /\ agent_meta = None
    /\ intent = ""
    /\ text = ""
    /\ context = EmptyDict
    /\ request_id = ""
    /\ handshake = None
    /\ payload = None
    /\ posts = 0
    /\ resp = None
    /\ returned = None

\* no call of combine_tool_outputs is in progress
CombineIdle ==
    /\ c_pc = "idle"
    /\ OpenAI = FALSE
    /\ api_key = ""
    /\ tool_outputs = <<>>
    /\ llm_reply = None
    /\ combined = None

\* no call of summarize_history is in progress
HistoryIdle ==
    /\ h_pc = "idle"
    /\ h_OpenAI = FALSE
    /\ h_api_key = ""
    /\ history = <<>>
    /\ h_reply = None
    /\ summary = None

(***************************************************************************)
(* call_agent, from its entry to the POST or to an early return            *)
(***************************************************************************)
Init ==
    /\ pc = "start"
    /\ httpx \in BOOLEAN
    /\ agent_meta \in AgentMetas
    /\ intent \in Intents
    /\ text \in Texts
    /\ context \in Contexts
    /\ request_id = ""
    /\ handshake = None
    /\ payload = None
    /\ posts = 0
    /\ resp = None
    /\ returned = None
    /\ CombineIdle
    /\ HistoryIdle

\* faulty variant: the library check does not look at the type
Transport_AnyTypeNeedsClient(meta, lib) ==
    IF HttpReady(meta, lib) THEN "http"
    ELSE IF ~lib THEN "no_client"
    ELSE IF meta.type = "cli" THEN "cli"
    ELSE "unconfigured"

\* the branch of the if/elif chain that the metadata selects
Transport(meta, lib) ==
    IF HttpReady(meta, lib) THEN "http"
    ELSE IF meta.type = "http" /\ ~lib THEN "no_client"
    ELSE IF meta.type = "cli" THEN "cli"
    ELSE "unconfigured"

\* building the metadata raised, outside every try block: the exception
\* reaches the caller and nothing is returned
MetadataFails ==
    /\ pc = "start"
    /\ MetadataRaises(context)
    /\ \E rid \in RequestIds : request_id' = rid
    /\ returned' = [raised |-> "AttributeError"]
    /\ pc' = "done"
    /\ UNCHANGED <<httpx, agent_meta, intent, text, context, handshake,
                   payload, posts, resp, combineVars, historyVars>>

\* the request is built, then the call returns without any I/O
ReturnEarly(rid, response) ==
    /\ request_id' = rid
    /\ handshake' = BuildHandshake(rid, agent_meta, intent, text, context)
    /\ returned' = response
    /\ pc' = "done"
    /\ UNCHANGED <<httpx, agent_meta, intent, text, context, payload, posts,
                   resp, combineVars, historyVars>>

SendRequest ==
    /\ pc = "start"
    /\ ~MetadataRaises(context)
    /\ Transport(agent_meta, httpx) = "http"
    /\ \E rid \in RequestIds :
         /\ request_id' = rid
         /\ handshake' = BuildHandshake(rid, agent_meta, intent, text, context)
         /\ payload' = BuildPayload(rid, agent_meta, intent, text, context)
    /\ posts' = posts + 1
    /\ pc' = "awaiting"
    /\ UNCHANGED <<httpx, agent_meta, intent, text, context, resp, returned,
                   combineVars, historyVars>>

HttpxNotInstalled ==
    /\ pc = "start"
    /\ ~MetadataRaises(context)
    /\ Transport(agent_meta, httpx) = "no_client"
    /\ \E rid \in RequestIds :
         ReturnEarly(rid, ErrorResponse(rid, agent_meta.name, "config_error",
                          "httpx not installed for HTTP agent calls"))

CliNotImplemented ==
    /\ pc = "start"
    /\ ~MetadataRaises(context)
    /\ Transport(agent_meta, httpx) = "cli"
    /\ \E rid \in RequestIds :
         ReturnEarly(rid, ErrorResponse(rid, agent_meta.name, "not_implemented",
                          "CLI agent execution is not implemented"))

NotConfigured ==
    /\ pc = "start"
    /\ ~MetadataRaises(context)
    /\ Transport(agent_meta, httpx) = "unconfigured"
    /\ \E rid \in RequestIds :
         ReturnEarly(rid, ErrorResponse(rid, agent_meta.name, "config_error",
                          "Agent endpoint/command not configured"))

(***************************************************************************)
(* call_agent, from the transport's outcome to its return                  *)
(***************************************************************************)
Return(outcome, response) ==
    /\ resp' = outcome
    /\ returned' = response
    /\ pc' = "done"
    /\ UNCHANGED <<httpx, agent_meta, intent, text, context, request_id,
                   handshake, payload, posts, combineVars, historyVars>>

\* faulty variant: a failed POST is sent once more
PostRaises_Retries ==
    /\ pc = "awaiting"
    /\ posts < 3
    /\ posts' = posts + 1
    /\ UNCHANGED <<pc, httpx, agent_meta, intent, text, context, request_id,
                   handshake, payload, resp, returned, combineVars,
                   historyVars>>

\* the POST raised: no connection, or the timeout_ms deadline passed
PostRaises ==
    /\ pc = "awaiting"
    /\ \E exc \in TransportErrors :
         Return([exception |-> exc],
                NetworkErrorResponse(request_id, agent_meta.name, exc))

\* faulty variant: the budget agent's body is read before the status is looked at
HttpError_BodyFirst ==
    /\ pc = "awaiting"
    /\ \E code \in ErrorCodes, body \in ErrorBodies :
         Return([status_code |-> code, body |-> body],
                IF agent_meta.name = BUDGET_AGENT
                THEN BudgetResponse(request_id, agent_meta.name, body)
                ELSE HttpErrorResponse(request_id, agent_meta, code))

HttpError ==
    /\ pc = "awaiting"
    /\ \E code \in ErrorCodes, body \in ErrorBodies :
         Return([status_code |-> code, body |-> body],
                HttpErrorResponse(request_id, agent_meta, code))

ProgressReply ==
    /\ pc = "awaiting"
    /\ agent_meta.name = PROGRESS_AGENT
    /\ \E body \in Bodies :
         Return([status_code |-> HTTP_OK, body |-> body],
                ProgressResponse(request_id, agent_meta.name, body))

BudgetReply ==
    /\ pc = "awaiting"
    /\ agent_meta.name # PROGRESS_AGENT
    /\ agent_meta.name = BUDGET_AGENT
    /\ \E body \in Bodies :
         Return([status_code |-> HTTP_OK, body |-> body],
                BudgetResponse(request_id, agent_meta.name, body))

GenericReply ==
    /\ pc = "awaiting"
    /\ agent_meta.name # PROGRESS_AGENT
    /\ agent_meta.name # BUDGET_AGENT
    /\ \E body \in Bodies :
         Return([status_code |-> HTTP_OK, body |-> body],
                GenericResponse(request_id, agent_meta.name, body))

Next ==
    \/ MetadataFails
    \/ SendRequest
    \/ HttpxNotInstalled
    \/ CliNotImplemented
    \/ NotConfigured
    \/ PostRaises
    \/ HttpError
    \/ ProgressReply
    \/ BudgetReply
    \/ GenericReply

Spec == Init /\ [][Next]_vars

(***************************************************************************)
(* combine_tool_outputs                                                    *)
(***************************************************************************)
MaxOutputs == 2

\* s.strip(), for the blanks a completion may carry around its text
RECURSIVE LStrip(_)
LStrip(s) ==
    IF Len(s) > 0 /\ SubSeq(s, 1, 1) = " "
    THEN LStrip(SubSeq(s, 2, Len(s))) ELSE s
RECURSIVE RStrip(_)
RStrip(s) ==
    IF Len(s) > 0 /\ SubSeq(s, Len(s), Len(s)) = " "
    THEN RStrip(SubSeq(s, 1, Len(s) - 1)) ELSE s
Strip(s) == RStrip(LStrip(s))

\* entry.get(k) inside an f-string: None prints as "None"
EntryText(entry, k) == IF k \in DOMAIN entry THEN entry[k] ELSE "None"

\* one line of the stitched answer
FallbackLine(entry) ==
    IF "status" \in DOMAIN entry /\ entry["status"] = "success"
    THEN EntryText(entry, "agent") \o ": " \o EntryText(entry, "result")
    ELSE EntryText(entry, "agent") \o ": failed ("
             \o EntryText(entry, "error") \o ")"

\* faulty variant: the lines are collected in reverse
FallbackLines_Reversed(outputs) ==
    [i \in 1..Len(outputs) |-> FallbackLine(outputs[Len(outputs) + 1 - i])]

\* the list `lines` after the loop over req.tool_outputs
FallbackLines(outputs) == [i \in 1..Len(outputs) |-> FallbackLine(outputs[i])]

\* _fallback()
Fallback(outputs) ==
    IF Len(FallbackLines(outputs)) > 0
    THEN Join(FallbackLines(outputs), " | ")
    ELSE "No tool outputs available."

\* the per-agent records a request can carry
ToolOutputEntries ==
    { [agent |-> "budget_tracker_agent", status |-> "success",
       result |-> "Remaining: $1200.00"],
      [agent |-> "document_summarizer_agent", status |-> "error",
       error |-> "HTTP 500 calling http://agent.local/run"],
      [agent |-> "progress_accountability_agent", status |-> "success",
       result |-> "Goal Created Successfully!", error |-> "stale"],
      [agent |-> "deadline_guardian_agent", status |-> "timeout",
       result |-> "partial"] }

RECURSIVE SeqsUpTo(_, _)
SeqsUpTo(S, n) ==
    IF n = 0 THEN {<<>>}
    ELSE SeqsUpTo(S, n - 1) \cup
         { Append(q, e) : q \in {x \in SeqsUpTo(S, n - 1) : Len(x) = n - 1},
                          e \in S }

\* what client.chat.completions.create can do
LlmReplies ==
    { [exception |-> "APIConnectionError"],
      [choices |-> <<>>],
      [choices |-> <<[content |-> "  Budget is fine; the summary failed. "]>>],
      [choices |-> <<[content |-> "Both tools answered."],
                     [content |-> "second choice"]>>],
      [choices |-> <<[content_is_none |-> TRUE]>>] }

CInit ==
    /\ CallIdle
    /\ HistoryIdle
    /\ c_pc = "start"
    /\ OpenAI \in BOOLEAN
    /\ api_key \in {"", "sk-or-123"}
    /\ tool_outputs \in SeqsUpTo(ToolOutputEntries, MaxOutputs)
    /\ llm_reply = None
    /\ combined = None

\* the language model is not consulted: the library or the key is missing
LlmUnavailable == ~OpenAI \/ api_key = ""

CombineReturn(answer) ==
    /\ combined' = [combined_answer |-> answer]
    /\ c_pc' = "done"
    /\ UNCHANGED <<OpenAI, api_key, tool_outputs, callVars, historyVars>>

\* OpenAI is None or not api_key
CombineNoLlm ==
    /\ c_pc = "start"
    /\ LlmUnavailable
    /\ CombineReturn(Fallback(tool_outputs))
    /\ UNCHANGED llm_reply

\* OpenAI(...) raised
CombineClientFails ==
    /\ c_pc = "start"
    /\ ~LlmUnavailable
    /\ llm_reply' = [exception |-> "client construction failed"]
    /\ CombineReturn(Fallback(tool_outputs))

\* the client was built and the completion request is sent
CombineCallLlm ==
    /\ c_pc = "start"
    /\ ~LlmUnavailable
    /\ c_pc' = "calling"
    /\ UNCHANGED <<OpenAI, api_key, tool_outputs, llm_reply, combined, callVars,
                   historyVars>>

\* the completion produced a usable first choice
LlmAnswers(reply) ==
    /\ "choices" \in DOMAIN reply
    /\ Len(reply.choices) > 0
    /\ "content" \in DOMAIN reply.choices[1]

\* the try block around the completion, and the final `return _fallback()`
CombineAnswer(reply, outputs) ==
    IF LlmAnswers(reply) THEN Strip(reply.choices[1].content)
    ELSE Fallback(outputs)

CombineLlmReplies ==
    /\ c_pc = "calling"
    /\ \E reply \in LlmReplies :
         /\ llm_reply' = reply
         /\ CombineReturn(CombineAnswer(reply, tool_outputs))

CNext ==
    \/ CombineNoLlm
    \/ CombineClientFails
    \/ CombineCallLlm
    \/ CombineLlmReplies

SpecCombine == CInit /\ [][CNext]_vars

(***************************************************************************)
(* summarize_history                                                       *)
(***************************************************************************)
MaxTurns == 7

\* history[-6:]
KeepTurns == 6
\* joined[:500]
SummaryLimit == 500

\* s * n
RECURSIVE Repeat(_, _)
Repeat(s, n) == IF n = 0 THEN "" ELSE s \o Repeat(s, n - 1)

\* the turns a history can hold; a dict need not carry both keys
Turns ==
    { [role |-> "user", content |-> "what is left of the budget?"],
      [role |-> "assistant",
       content |-> "A: " \o Repeat("the plan has ten more steps; ", 5)],
      [content |-> "turn without a role"] }

Histories == UNION { [1..n -> Turns] : n \in 0..MaxTurns }

\* m.get(k) and m.get(k, default) inside an f-string
TurnText(m, k, default) == IF k \in DOMAIN m THEN m[k] ELSE default

\* faulty variant: the first six turns are kept
LastTurns_First(h) ==
    IF Len(h) <= KeepTurns THEN h ELSE [i \in 1..KeepTurns |-> h[i]]

\* history[-6:]
LastTurns(h) ==
    IF Len(h) <= KeepTurns THEN h
    ELSE [i \in 1..KeepTurns |-> h[Len(h) - KeepTurns + i]]

\* s[:n]
Truncate(s, n) == IF Len(s) <= n THEN s ELSE SubSeq(s, 1, n)

\* the list `parts`
HistoryParts(h) ==
    [i \in 1..Len(LastTurns(h)) |->
        TurnText(LastTurns(h)[i], "role", "None") \o ": "
            \o TurnText(LastTurns(h)[i], "content", "")]

\* _fallback()
HistoryFallback(h) ==
    "Conversation summary (fallback): "
        \o Truncate(Join(HistoryParts(h), " | "), SummaryLimit)

HInit ==
    /\ CallIdle
    /\ CombineIdle
    /\ h_pc = "start"
    /\ h_OpenAI \in BOOLEAN
    /\ h_api_key \in {"", "sk-or-123"}
    /\ history \in Histories
    /\ h_reply = None
    /\ summary = None

SummaryReturn(s) ==
    /\ summary' = s
    /\ h_pc' = "done"
    /\ UNCHANGED <<h_OpenAI, h_api_key, history, callVars, combineVars>>

\* if not history: return ""
SummarizeEmpty ==
    /\ h_pc = "start"
    /\ Len(history) = 0
    /\ SummaryReturn("")
    /\ UNCHANGED h_reply

\* OpenAI is None or not api_key
SummarizeNoLlm ==
    /\ h_pc = "start"
    /\ Len(history) > 0
    /\ ~h_OpenAI \/ h_api_key = ""
    /\ SummaryReturn(HistoryFallback(history))
    /\ UNCHANGED h_reply

\* OpenAI(...) raised
SummarizeClientFails ==
    /\ h_pc = "start"
    /\ Len(history) > 0
    /\ h_OpenAI /\ h_api_key # ""
    /\ h_reply' = [exception |-> "client construction failed"]
    /\ SummaryReturn(HistoryFallback(history))

\* the client was built and the completion request is sent
SummarizeCallLlm ==
    /\ h_pc = "start"
    /\ Len(history) > 0
    /\ h_OpenAI /\ h_api_key # ""
    /\ h_pc' = "calling"
    /\ UNCHANGED <<h_OpenAI, h_api_key, history, h_reply, summary, callVars,
                   combineVars>>

\* the try block around the completion, and the final `return _fallback()`
SummarizeLlmReplies ==
    /\ h_pc = "calling"
    /\ \E reply \in LlmReplies :
         /\ h_reply' = reply
         /\ SummaryReturn(IF LlmAnswers(reply)
                          THEN Strip(reply.choices[1].content)
                          ELSE HistoryFallback(history))

HNext ==
    \/ SummarizeEmpty
    \/ SummarizeNoLlm
    \/ SummarizeClientFails
    \/ SummarizeCallLlm
    \/ SummarizeLlmReplies

SpecHistory == HInit /\ [][HNext]_vars

(***************************************************************************)
(* Vocabulary of the properties                                            *)
(***************************************************************************)
Done == pc = "done"
IsAgentResponse(r) ==
    DOMAIN r = {"request_id", "agent_name", "status", "output", "error"}
PostFailed == "exception" \in DOMAIN resp
GotStatus == "status_code" \in DOMAIN resp
Replied200 == GotStatus /\ resp.status_code = 200
ErrorOfType(r, type) ==
    /\ IsAgentResponse(r)
    /\ r.status = "error"
    /\ r.error # None
    /\ r.error.type = type
Undecodable(body) == ~JsonParses(body) \/ ~IsObj(body)

\* the adapter itself met a failure: configuration, transport, HTTP status,
\* a body it cannot decode, or a failure reported in a named agent's vocabulary
AdapterFailure ==
    \/ ~(agent_meta.type = "http" /\ agent_meta.endpoint # "" /\ httpx)
    \/ PostFailed
    \/ GotStatus /\ resp.status_code # 200
    \/ /\ Replied200
       /\ \/ Undecodable(resp.body)
          \/ /\ agent_meta.name = PROGRESS_AGENT
             /\ \/ ProgressParseRaises(resp.body)
                \/ Get(resp.body, "status", Str("")) = Str("error")
          \/ /\ agent_meta.name = BUDGET_AGENT
             /\ \/ BudgetParseRaises(resp.body)
                \/ ~Truthy(Get(resp.body, "success", Bool(FALSE)))
          \/ /\ agent_meta.name \notin {PROGRESS_AGENT, BUDGET_AGENT}
             /\ ~ValidAgentResponse(resp.body)

(***************************************************************************)
(* C1: call_agent never raises to its caller.  Whatever the metadata, the  *)
(* context and the transport's outcome, every call that has not returned   *)
(* can take a step, what it returns is an AgentResponse, and every failure *)
(* the adapter meets is returned as status "error" with an error whose     *)
(* type is in the closed taxonomy.                                         *)
(***************************************************************************)
C1_NeverRaises ==
    /\ ~Done => ENABLED Next
    /\ Done =>
         /\ IsAgentResponse(returned)
         /\ AdapterFailure =>
              /\ returned.status = "error"
              /\ returned.error # None
              /\ returned.error.type \in ErrorTypes

\* a context carrying file_uploads whose first entry is a path, not a
\* mapping: the call ended without returning an AgentResponse
C1_Witness ==
    /\ Done
    /\ MetadataRaises(context)
    /\ context["file_uploads"][1] = PathUpload
    /\ ~IsAgentResponse(returned)
    /\ posts = 0

(***************************************************************************)
(* C2: every AgentResponse returned has exactly one of output and error    *)
(* populated, and error is populated exactly when status = "error".        *)
(***************************************************************************)
C2_ExactlyOneOfOutputError ==
    (Done /\ IsAgentResponse(returned)) =>
        /\ (returned.output # None) # (returned.error # None)
        /\ (returned.error # None) <=> (returned.status = "error")

\* a generic agent's 200 body with neither output nor error was returned as is
C2_Witness ==
    /\ Done
    /\ Replied200
    /\ agent_meta.name = "document_summarizer_agent"
    /\ IsAgentResponse(returned)
    /\ returned.output = None
    /\ returned.error = None

(***************************************************************************)
(* C3: for the progress/accountability agent the task POSTed is the value  *)
(* PROGRESS_AGENT_INTENT_MAP gives the intent, and "accountability" for an *)
(* intent that is not a key of the table.                                  *)
(***************************************************************************)
C3_TaskFollowsTable ==
    (posts > 0 /\ agent_meta.name = PROGRESS_AGENT) =>
        payload.task =
            IF intent \in DOMAIN PROGRESS_AGENT_INTENT_MAP
            THEN PROGRESS_AGENT_INTENT_MAP[intent]
            ELSE "accountability"

\* goal.update was POSTed as a freeform message
C3_Witness ==
    /\ posts > 0
    /\ agent_meta.name = PROGRESS_AGENT
    /\ intent = "goal.update"
    /\ payload.task = "freeform_message"

C5_Non200IsHttpError ==
    (Done /\ GotStatus /\ resp.status_code # 200) =>
        /\ ErrorOfType(returned, "http_error")
        /\ returned.output = None
        /\ returned.error.message =
               "HTTP " \o ToString(resp.status_code) \o " calling "
                   \o agent_meta.endpoint

\* a 500 whose body reports success, for the budget agent
C5_Witness ==
    /\ Done
    /\ GotStatus
    /\ resp.status_code = 500
    /\ agent_meta.name = BUDGET_AGENT
    /\ IsObj(resp.body)
    /\ Get(resp.body, "success", Bool(FALSE)) = Bool(TRUE)
    /\ returned.error.type = "http_error"

(***************************************************************************)
(* C6: an HTTP 200 reply whose body cannot be decoded yields error.type    *)
(* "parse_error", for the named agents and for every other agent, and      *)
(* "network_error" is returned only when the HTTP call itself failed.      *)
(***************************************************************************)
C6_UndecodableIsParseError ==
    Done =>
        /\ (Replied200 /\ Undecodable(resp.body)) =>
               ErrorOfType(returned, "parse_error")
        /\ ErrorOfType(returned, "network_error") => PostFailed

\* a generic agent answered 200 with a page that is not JSON
C6_Witness ==
    /\ Done
    /\ Replied200
    /\ agent_meta.name = "document_summarizer_agent"
    /\ ~JsonParses(resp.body)
    /\ ErrorOfType(returned, "network_error")

C8_Fields == <<"remaining", "project_name", "overshoot_risk", "recommendations">>

C8_Holds(body, field) ==
    /\ Has(body, field)
    /\ field = "recommendations" => Truthy(body.obj[field])

C8_Segment(body, field) ==
    CASE field = "remaining" ->
             "Remaining: $" \o ToString(body.obj[field].num) \o ".00"
      [] field = "project_name" -> "Project: " \o body.obj[field].str
      [] field = "overshoot_risk" -> "Overshoot Risk: " \o body.obj[field].str
      [] field = "recommendations" ->
             "Recommendations: "
                 \o Join([i \in 1..Len(body.obj[field].arr) |->
                             body.obj[field].arr[i].str], ", ")

\* the segments of fields i..4 that the body holds, separated by ". "
RECURSIVE C8_TextFrom(_, _, _)
C8_TextFrom(body, i, first) ==
    IF i > Len(C8_Fields) THEN ""
    ELSE IF C8_Holds(body, C8_Fields[i])
    THEN (IF first THEN "" ELSE ". ") \o C8_Segment(body, C8_Fields[i])
             \o C8_TextFrom(body, i + 1, FALSE)
    ELSE C8_TextFrom(body, i + 1, first)

C8_WellTyped(body) ==
    /\ Has(body, "remaining") => IsNum(body.obj["remaining"])
    /\ Has(body, "recommendations") =>
         /\ IsArr(body.obj["recommendations"])
         /\ \A i \in 1..Len(body.obj["recommendations"].arr) :
                IsStr(body.obj["recommendations"].arr[i])

C9_KnownStatuses ==
    {Str("ok"), Str("created"), Str("saved"), Str("incomplete"), Str("error")}

C9_RecognisedKeys ==
    {"generated_at", "goal_risks", "performance_metrics", "reply", "message"}

C10_NoText ==
    \/ ~OpenAI
    \/ api_key = ""
    \/ "exception" \in DOMAIN llm_reply
    \/ "choices" \in DOMAIN llm_reply /\ llm_reply.choices = <<>>

C10_Field(entry, k) == IF k \in DOMAIN entry THEN entry[k] ELSE "None"

C10_Segment(entry) ==
    IF C10_Field(entry, "status") = "success"
    THEN C10_Field(entry, "agent") \o ": " \o C10_Field(entry, "result")
    ELSE C10_Field(entry, "agent") \o ": failed (" \o C10_Field(entry, "error")
             \o ")"

\* segments 1..n in input order, each after the first preceded by " | "
RECURSIVE C10_Stitched(_, _)
C10_Stitched(outputs, n) ==
    IF n = 0 THEN ""
    ELSE C10_Stitched(outputs, n - 1) \o (IF n = 1 THEN "" ELSE " | ")
             \o C10_Segment(outputs[n])

C10_FallbackInPlace ==
    (c_pc = "done" /\ C10_NoText) =>
        /\ DOMAIN combined = {"combined_answer"}
        /\ combined.combined_answer =
               IF Len(tool_outputs) = 0 THEN "No tool outputs available."
               ELSE C10_Stitched(tool_outputs, Len(tool_outputs))

\* the completion had no choices; a success and a failure were stitched
C10_Witness ==
    /\ c_pc = "done"
    /\ OpenAI
    /\ api_key # ""
    /\ "choices" \in DOMAIN llm_reply
    /\ llm_reply.choices = <<>>
    /\ Len(tool_outputs) = 2
    /\ C10_Field(tool_outputs[1], "status") = "success"
    /\ C10_Field(tool_outputs[2], "status") # "success"
    /\ combined.combined_answer = C10_Stitched(tool_outputs, 2)

(***************************************************************************)
(* C11: summarize_history returns "" for an empty history without          *)
(* consulting the language model; for a non-empty history, when the model  *)
(* is unavailable or fails, it returns "Conversation summary (fallback): " *)
(* followed by at most 500 characters: the first 500 of the last 6 turns   *)
(* rendered "role: content", joined by " | " in their order.  No earlier   *)
(* turn enters the result.                                                 *)
(***************************************************************************)
C11_Prefix == "Conversation summary (fallback): "

C11_NoText ==
    \/ ~h_OpenAI
    \/ h_api_key = ""
    \/ "exception" \in DOMAIN h_reply
    \/ "choices" \in DOMAIN h_reply /\ h_reply.choices = <<>>

C11_Rendered(m) ==
    (IF "role" \in DOMAIN m THEN m.role ELSE "None") \o ": "
        \o (IF "content" \in DOMAIN m THEN m.content ELSE "")

\* turns from..to, in order, each after the first preceded by " | "
RECURSIVE C11_Joined(_, _, _)
C11_Joined(h, from, to) ==
    IF to < from THEN ""
    ELSE C11_Joined(h, from, to - 1) \o (IF to = from THEN "" ELSE " | ")
             \o C11_Rendered(h[to])

C11_SummaryFallback ==
    h_pc = "done" =>
        /\ Len(history) = 0 => summary = "" /\ h_reply = None
        /\ (Len(history) > 0 /\ C11_NoText) =>
             LET n == Len(history)
                 from == IF n > 6 THEN n - 5 ELSE 1
                 joined == C11_Joined(history, from, n)
                 kept == IF Len(joined) > 500 THEN SubSeq(joined, 1, 500)
                         ELSE joined
             IN  /\ summary = C11_Prefix \o kept
                 /\ Len(summary) <= Len(C11_Prefix) + 500

\* seven turns, the completion raised, and the text was cut at 500
C11_Witness ==
    /\ h_pc = "done"
    /\ Len(history) = 7
    /\ h_OpenAI
    /\ "exception" \in DOMAIN h_reply
    /\ history[1] # history[7]
    /\ Len(summary) = Len(C11_Prefix) + 500
    /\ Len(C11_Joined(history, 2, 7)) > 500

(***************************************************************************)
(* C12: for the progress/accountability agent, intent goal.update with     *)
(* both goal_id and progress in the context POSTs params that carry that   *)
(* goal_id and that progress; a freeform task POSTs params that carry the  *)
(* input text under `message`.                                             *)
(***************************************************************************)
C12_ParamsPerTask ==
    (posts > 0 /\ agent_meta.name = PROGRESS_AGENT) =>
        /\ ( /\ intent = "goal.update"
             /\ "goal_id" \in DOMAIN context
             /\ "progress" \in DOMAIN context )
             => /\ {"goal_id", "progress"} \subseteq DOMAIN payload.params
                /\ payload.params["goal_id"] = context["goal_id"]
                /\ payload.params["progress"] = context["progress"]
        /\ payload.task = "freeform_message"
             => /\ "message" \in DOMAIN payload.params
                /\ payload.params["message"] = text

\* goal.update with goal_id and progress in the context went out as a
\* freeform message without either
C12_Witness ==
    /\ posts > 0
    /\ agent_meta.name = PROGRESS_AGENT
    /\ intent = "goal.update"
    /\ "goal_id" \in DOMAIN context
    /\ "progress" \in DOMAIN context
    /\ payload.params = [message |-> text]

(***************************************************************************)
(* C13: for the progress/accountability agent replying HTTP 200 with       *)
(* status "incomplete", the result text names every missing field the      *)
(* agent reported, under missing_fields or under missing_parts, also when  *)
(* one of the two keys is present but empty and the other has the names.   *)
(***************************************************************************)
C13_Contains(s, sub) ==
    \E i \in 1..(Len(s) - Len(sub) + 1) : SubSeq(s, i, i + Len(sub) - 1) = sub

\* the names a body reports under key k, when k holds a list of strings
C13_Reported(body, k) ==
    IF /\ Has(body, k)
       /\ IsArr(body.obj[k])
       /\ \A i \in 1..Len(body.obj[k].arr) : IsStr(body.obj[k].arr[i])
    THEN { body.obj[k].arr[i].str : i \in 1..Len(body.obj[k].arr) }
    ELSE {}

C13_IncompleteListsFields ==
    ( /\ Done
      /\ Replied200
      /\ agent_meta.name = PROGRESS_AGENT
      /\ IsObj(resp.body)
      /\ Get(resp.body, "status", Null) = Str("incomplete")
      /\ ~ProgressParseRaises(resp.body) ) =>
        /\ returned.status = "success"
        /\ IsStr(returned.output.result)
        /\ \A name \in C13_Reported(resp.body, "missing_fields")
                      \cup C13_Reported(resp.body, "missing_parts") :
               C13_Contains(returned.output.result.str, name)

\* missing_fields is present and empty, missing_parts names the field, and
\* the text says "unknown"
C13_Witness ==
    /\ Done
    /\ Replied200
    /\ agent_meta.name = PROGRESS_AGENT
    /\ IsObj(resp.body)
    /\ Get(resp.body, "status", Null) = Str("incomplete")
    /\ Get(resp.body, "missing_fields", Null) = Arr(<<>>)
    /\ C13_Reported(resp.body, "missing_parts") = {"deadline"}
    /\ returned.status = "success"
    /\ C13_Contains(returned.output.result.str, "Missing: unknown")

(***************************************************************************)
(* C14: whenever context.file_uploads is non-empty, the metadata of the    *)
(* canonical request carries the first upload's base64 payload, MIME type  *)
(* and filename and nothing of a later upload, whatever the uploads hold;  *)
(* when file_uploads is empty or absent the metadata carries only the      *)
(* language field and the extra map.                                       *)
(***************************************************************************)
C14_FirstUploadAttached ==
    handshake # None =>
        LET metadata == handshake.input.metadata
            uploads == IF "file_uploads" \in DOMAIN context
                       THEN context["file_uploads"] ELSE <<>>
        IN  /\ metadata.language = "en"
            /\ metadata.extra = EmptyDict
            /\ IF Len(uploads) = 0
               THEN DOMAIN metadata = {"language", "extra"}
               ELSE /\ DOMAIN metadata =
                          {"language", "extra", "file_base64", "mime_type",
                           "filename"}
                    /\ "base64_data" \in DOMAIN uploads[1]
                    /\ metadata.file_base64 = uploads[1].base64_data
                    /\ "mime_type" \in DOMAIN uploads[1]
                          => metadata.mime_type = uploads[1].mime_type
                    /\ "filename" \in DOMAIN uploads[1]
                          => metadata.filename = uploads[1].filename

(***************************************************************************)
(* C14, as the code has it: the metadata carries the first upload's base64 *)
(* payload, MIME type and filename exactly when file_uploads is non-empty  *)
(* and the first upload's base64 payload is non-empty; a MIME type or a    *)
(* filename the first upload lacks is "application/octet-stream" or        *)
(* "uploaded_file"; nothing of a later upload is carried; in every other   *)
(* case the metadata carries only the language field and the extra map.    *)
(***************************************************************************)
C14_FirstPayloadAttached ==
    handshake # None =>
        LET metadata == handshake.input.metadata
            uploads == IF "file_uploads" \in DOMAIN context
                       THEN context["file_uploads"] ELSE <<>>
            first == uploads[1]
            attached == /\ Len(uploads) > 0
                        /\ "base64_data" \in DOMAIN first
                        /\ first.base64_data # ""
        IN  /\ metadata.language = "en"
            /\ metadata.extra = EmptyDict
            /\ IF ~attached
               THEN DOMAIN metadata = {"language", "extra"}
               ELSE /\ DOMAIN metadata =
                          {"language", "extra", "file_base64", "mime_type",
                           "filename"}
                    /\ metadata.file_base64 = first.base64_data
                    /\ metadata.mime_type =
                          IF "mime_type" \in DOMAIN first THEN first.mime_type
                          ELSE "application/octet-stream"
                    /\ metadata.filename =
                          IF "filename" \in DOMAIN first THEN first.filename
                          ELSE "uploaded_file"

\* two uploads: the first one's payload, MIME type and filename went out
C14_Witness ==
    /\ handshake # None
    /\ "file_uploads" \in DOMAIN context
    /\ Len(context["file_uploads"]) = 2
    /\ context["file_uploads"][2] = LaterUpload
    /\ "file_base64" \in DOMAIN handshake.input.metadata
    /\ handshake.input.metadata.file_base64 = "QUJD"
    /\ handshake.input.metadata.filename = "plan.pdf"

(***************************************************************************)
(* C15: every AgentResponse returned echoes the request: its request_id is *)
(* the one generated for the call and its agent_name is the called agent's *)
(* name, on every path, the direct decode of a generic agent's body        *)
(* included.                                                               *)
(***************************************************************************)
C15_EchoesRequest ==
    (Done /\ IsAgentResponse(returned)) =>
        /\ returned.request_id = request_id
        /\ returned.agent_name = agent_meta.name

\* a generic agent's body was returned with the identifiers it carried
C15_Witness ==
    /\ Done
    /\ Replied200
    /\ IsAgentResponse(returned)
    /\ request_id = "req-2"
    /\ returned.request_id = "req-1"
    /\ agent_meta.name = "document_summarizer_agent"
    /\ returned.agent_name = "deadline_guardian_agent"

(***************************************************************************)
(* C16: no agent call is retried: a call issues at most one POST, and once *)
(* the POST failed, returned a status other than 200 or returned a body    *)
(* that cannot be decoded, the call has returned with that one POST issued *)
(* and takes no further step.                                              *)
(***************************************************************************)
C16_NoRetry ==
    /\ posts <= 1
    /\ pc = "awaiting" => posts = 1
    /\ (PostFailed \/ GotStatus) =>
         /\ Done
         /\ posts = 1
         /\ ~ENABLED Next

\* the POST timed out and the call returned after its single request
C16_Witness ==
    /\ Done
    /\ PostFailed
    /\ resp.exception = "ReadTimeout"
    /\ posts = 1
    /\ ~ENABLED Next

====
